---- MODULE Spec2Model ----
(***************************************************************************)
(* Text-to-video generator (src/text_animator.py).                         *)
(*                                                                         *)
(* The model covers TextAnimator (style catalog, create_base_frame, the    *)
(* five per-style renderers, create_frames) and the "Generate Video"       *)
(* handler of main(): frame creation, the temporary .mp4 file, the clip,   *)
(* write_videofile, the audio step, the read-back, os.unlink and the       *)
(* session history.                                                        *)
(*                                                                         *)
(* Text is a sequence of one-character strings.  A frame is the record of  *)
(* what was painted on it: its index in the list, the canvas size, the     *)
(* background fill and the ordered draw.text calls.                        *)
(***************************************************************************)
EXTENDS Integers, Sequences, FiniteSets, TLC

VARIABLES
    text_input,   \* st.text_area value / create_frames argument `text`
    style,        \* st.selectbox value / create_frames argument `style`
    fps,          \* slider value / create_frames argument `fps`
    duration,     \* slider value / create_frames argument `duration`
    pc,           \* position of the running call
    caller,       \* "main" (Generate button) or "api" (direct create_frames call)
    frames,       \* the list create_frames returned
    error,        \* the exception that ended the call, "none" otherwise
    tmp_exists,   \* the NamedTemporaryFile of this run exists on disk
    leaked,       \* temporary files left on disk by earlier runs
    clip,         \* the ImageSequenceClip
    video_bytes,  \* bytes read back from the temporary file
    history,      \* st.session_state.history
    rng,          \* state of the process-wide generator of module random
    runs,         \* completed runs of the script
    prev          \* outcome of the previous create_frames call (same arguments)

vars == <<text_input, style, fps, duration, pc, caller, frames, error,
          tmp_exists, leaked, clip, video_bytes, history, rng, runs, prev>>

-----------------------------------------------------------------------------
(* Bounds of the model *)

MaxSmallFps == 2      \* create_frames is also called with fps in 0..MaxSmallFps
MaxDuration == 2      \* duration in 0..MaxDuration
MaxSeed == 1          \* initial generator state in 0..MaxSeed
MaxRuns == 2          \* script runs per session

(* Program constants *)

CanvasWidth == 800
CanvasHeight == 400
FpsMin == 15
FpsMax == 60
DurationMin == 1
DurationMax == 10
RainColStep == 20
RainRowStep == 30

Min(a, b) == IF a < b THEN a ELSE b
Max(a, b) == IF a > b THEN a ELSE b

-----------------------------------------------------------------------------
(* TextAnimator.__init__: the style catalog *)

Styles ==
    [ neon |->
        [name |-> "Neon Glow", font_size |-> 72,
         colors |-> <<"#FF1493", "#00FF00", "#FF4500">>,
         background |-> "#000000", animation_type |-> "glow"],
      typewriter |->
        [name |-> "Typewriter", font_size |-> 64,
         colors |-> <<"#FFFFFF">>,
         background |-> "#000000", animation_type |-> "type"],
      bounce |->
        [name |-> "Bouncing Text", font_size |-> 80,
         colors |-> <<"#FFD700">>,
         background |-> "#000033", animation_type |-> "bounce"],
      matrix |->
        [name |-> "Matrix Rain", font_size |-> 56,
         colors |-> <<"#00FF00">>,
         background |-> "#000000", animation_type |-> "matrix"],
      rainbow |->
        [name |-> "Rainbow Wave", font_size |-> 70,
         colors |-> <<"#FF0000", "#FF7F00", "#FFFF00", "#00FF00",
                      "#0000FF", "#4B0082", "#9400D3">>,
         background |-> "#FFFFFF", animation_type |-> "rainbow"] ]

KnownStyles == DOMAIN Styles

-----------------------------------------------------------------------------
(* Inputs *)

Texts ==
    { <<>>,
      <<"H", "e", "l", "l", "o">>,
      <<"T", "e", "x", "t", " ", "t", "o", " ", "v", "i", "d", "e", "o",
        "!", "!", "!">> }

StyleNames == KnownStyles \cup {"sparkle"}

FpsValues == (0 .. MaxSmallFps) \cup {FpsMin, 24}

DurationValues == 0 .. MaxDuration

\* What the widgets of main() can hold when the Generate button is pressed:
\* a non-empty text, one of the five listed styles, the slider ranges.
UIRequest(t, s, f, d) ==
    /\ t # <<>>
    /\ s \in {"typewriter", "bounce", "matrix", "rainbow", "neon"}
    /\ f \in FpsMin .. FpsMax
    /\ d \in DurationMin .. DurationMax

-----------------------------------------------------------------------------
(* Text metrics: ImageDraw.textlength / textbbox with the loaded font.     *)
(* The font is external; it is fixed for the process, so the model uses    *)
(* one proportional metric: narrow glyphs advance a quarter of the font    *)
(* size, the others half of it.                                            *)

NarrowGlyphs == {"i", "l", "!", " ", "t"}

GlyphAdvance(c, font_size) ==
    IF c \in NarrowGlyphs THEN font_size \div 4 ELSE font_size \div 2

RECURSIVE textlength(_, _)
textlength(t, font_size) ==
    IF t = <<>> THEN 0
    ELSE GlyphAdvance(Head(t), font_size) + textlength(Tail(t), font_size)

\* draw.textbbox((0, 0), text, font): <<left, top, right, bottom>>
textbbox(t, font_size) ==
    IF t = <<>> THEN <<0, 0, 0, 0>>
    ELSE <<0, 0, textlength(t, font_size), font_size>>

\* text[:n] for n >= 0
Prefix(t, n) == SubSeq(t, 1, Min(n, Len(t)))

\* One draw.text call
Draw(at, t, fill) == [at |-> at, text |-> t, fill |-> fill]

\* create_base_frame: a fresh image filled with the background, and the
\* origin that centres the whole text.
create_base_frame(text, width, height, st) ==
    LET bbox == textbbox(text, st.font_size)
        text_width == bbox[3] - bbox[1]
        text_height == bbox[4] - bbox[2]
    IN  [size |-> <<width, height>>,
         background |-> st.background,
         origin |-> <<(width - text_width) \div 2, (height - text_height) \div 2>>]

\* np.array(img) appended at position i of the list
Frame(i, base, draws) ==
    [index |-> i, size |-> base.size, background |-> base.background,
     draws |-> draws]

\* Mutant: the loop starts at 1 (one frame short)
TotalFramesOneShort(f, d) == IF f * d > 0 THEN f * d - 1 ELSE 0

\* int(fps * duration); fps and duration are integers here
TotalFrames(f, d) == f * d


\* Outcome of a renderer or of create_frames: the list and the generator
\* state it leaves, or the exception raised.
Returned(fs, s) == [raised |-> "none", frames |-> fs, rng |-> s]
Raised(kind, s) == [raised |-> kind, frames |-> <<>>, rng |-> s]

-----------------------------------------------------------------------------
(* create_typewriter_effect *)

\* Mutant: len(text) // total_frames without the floor of 1
CharsPerFrameUnfloored(text, total_frames) == Len(text) \div total_frames

\* max(1, len(text) // total_frames), total_frames # 0
CharsPerFrame(text, total_frames) == Max(1, Len(text) \div total_frames)

\* int(i * chars_per_frame)
VisibleChars(i, chars_per_frame) == i * chars_per_frame

\* Mutant: a cursor glyph is drawn after the visible characters
typewriter_frame_cursor(text, width, height, st, i, chars_per_frame) ==
    LET base == create_base_frame(text, width, height, st)
        visible_chars == Prefix(text, i * chars_per_frame)
    IN  Frame(i, base,
              << Draw(base.origin, visible_chars \o <<"_">>, st.colors[1]) >>)

typewriter_frame(text, width, height, st, i, chars_per_frame) ==
    LET base == create_base_frame(text, width, height, st)
        visible_chars == Prefix(text, VisibleChars(i, chars_per_frame))
    IN  Frame(i, base, << Draw(base.origin, visible_chars, st.colors[1]) >>)

create_typewriter_effect(text, width, height, st, f, d, s) ==
    LET total_frames == TotalFrames(f, d)
    IN  IF total_frames = 0
        THEN Raised("ZeroDivisionError", s)
        ELSE LET chars_per_frame == CharsPerFrame(text, total_frames)
             IN  Returned([k \in 1 .. total_frames |->
                              typewriter_frame(text, width, height, st,
                                               k - 1, chars_per_frame)], s)

-----------------------------------------------------------------------------
(* create_bounce_effect *)

\* int(20 * np.sin(2 * np.pi * i / fps)) evaluated in IEEE-754 binary64, for
\* the frame rates of the model and i in 0 .. 4*fps - 1 (row fps, entry i+1).
\* 20*sin(pi/6) is computed as 9.999999999999998 at i = 2 and as 10.0 at
\* i = 26 for fps = 24, and int() truncates.
SineOffsets ==
    ( 1 :> <<0, 0, 0, 0>> ) @@
    ( 2 :> <<0, 0, 0, 0, 0, 0, 0, 0>> ) @@
    ( 3 :> <<0, 17, -17, 0, 17, -17, 0, 17, -17, 0, 17, -17>> ) @@
    ( 4 :> <<0, 20, 0, -20, 0, 20, 0, -20, 0, 20, 0, -20, 0, 20, 0, -20>> ) @@
    ( 15 :> <<0, 8, 14, 19, 19, 17, 11, 4, -4, -11, -17, -19, -19, -14, -8,
              0, 8, 14, 19, 19, 17, 11, 4, -4, -11, -17, -19, -19, -14, -8,
              0, 8, 14, 19, 19, 17, 11, 4, -4, -11, -17, -19, -19, -14, -8,
              0, 8, 14, 19, 19, 17, 11, 4, -4, -11, -17, -19, -19, -14, -8>> ) @@
    ( 24 :> <<0, 5, 9, 14, 17, 19, 20, 19, 17, 14, 9, 5,
              0, -5, -9, -14, -17, -19, -20, -19, -17, -14, -10, -5,
              0, 5, 10, 14, 17, 19, 20, 19, 17, 14, 9, 5,
              0, -5, -9, -14, -17, -19, -20, -19, -17, -14, -10, -5,
              0, 5, 10, 14, 17, 19, 20, 19, 17, 14, 10, 5,
              0, -5, -9, -14, -17, -19, -20, -19, -17, -14, -10, -5,
              0, 5, 9, 14, 17, 19, 20, 19, 17, 14, 10, 5,
              0, -5, -9, -14, -17, -19, -20, -19, -17, -14, -10, -5>> )

BounceOffset(i, f) == SineOffsets[f][i + 1]

bounce_frame(text, width, height, st, i, f) ==
    LET base == create_base_frame(text, width, height, st)
        offset == BounceOffset(i, f)
    IN  Frame(i, base,
              << Draw(<<base.origin[1], base.origin[2] + offset>>, text,
                      st.colors[1]) >>)

\* Mutant: the bounce is jittered with one random draw per call
create_bounce_effect_jitter(text, width, height, st, f, d, s) ==
    LET total_frames == TotalFrames(f, d)
        s1 == (5 * s + 3) % 64
    IN  [raised |-> "none",
         frames |-> [k \in 1 .. total_frames |->
                        bounce_frame(text, width, height + 2 * (s1 % 4), st,
                                     k - 1, f)],
         rng |-> s1]

create_bounce_effect(text, width, height, st, f, d, s) ==
    LET total_frames == TotalFrames(f, d)
    IN  Returned([k \in 1 .. total_frames |->
                     bounce_frame(text, width, height, st, k - 1, f)], s)

-----------------------------------------------------------------------------
(* module random: one generator for the whole process, seeded at import.   *)
(* The generator is a small full-period linear congruential generator; its *)
(* state is the last value drawn, in 64ths.                                *)

RngStates == 0 .. 63

RngNext(s) == (5 * s + 3) % 64

\* random.random() < 0.1, on the value just drawn
BelowTenth(s) == 10 * s < 64

matrix_chars ==
    << "A", "B", "C", "D", "E", "F", "G", "H", "I", "J", "K", "L", "M", "N",
       "O", "P", "Q", "R", "S", "T", "U", "V", "W", "X", "Y", "Z", "0", "1",
       "2", "3", "4", "5", "6", "7", "8", "9", "@", "#", "$", "%", "&", "*" >>

\* random.choice(matrix_chars), on the value just drawn
Choice(s) == matrix_chars[((s * Len(matrix_chars)) \div 64) + 1]

HexDigits ==
    << "0", "1", "2", "3", "4", "5", "6", "7", "8", "9",
       "a", "b", "c", "d", "e", "f" >>

\* f"{n:02x}" for n in 0..255
Hex2(n) == HexDigits[(n \div 16) + 1] \o HexDigits[(n % 16) + 1]

\* int(255 * (1 - row/height)); the float value equals the exact quotient
\* for every row of the grid
Opacity(row, height) == (255 * (height - row)) \div height

\* f"#{0:02x}{opacity:02x}{0:02x}"
RainColor(row, height) == "#" \o Hex2(0) \o Hex2(Opacity(row, height)) \o Hex2(0)

-----------------------------------------------------------------------------
(* create_matrix_effect *)

\* The draw calls made so far on the image and the generator state
Painted(draws, s) == [draws |-> draws, rng |-> s]

\* for row in range(row, height, 30): one random() per cell, one choice()
\* per lit cell
RECURSIVE rain_rows(_, _, _, _)
rain_rows(col, row, height, p) ==
    IF row >= height THEN p
    ELSE LET s1 == RngNext(p.rng)
             s2 == RngNext(s1)
         IN  IF BelowTenth(s1)
             THEN rain_rows(col, row + RainRowStep, height,
                            Painted(Append(p.draws,
                                           Draw(<<col, row>>, <<Choice(s2)>>,
                                                RainColor(row, height))),
                                    s2))
             ELSE rain_rows(col, row + RainRowStep, height,
                            Painted(p.draws, s1))

\* for col in range(col, width, 20); p is evaluated before the next column
RECURSIVE rain_cols(_, _, _, _)
rain_cols(col, width, height, p) ==
    IF col >= width \/ p.rng \notin RngStates THEN p
    ELSE rain_cols(col + RainColStep, width, height,
                   rain_rows(col, 0, height, p))

\* The rain loops of one frame on the 800x400 canvas, tabulated by the
\* generator state they start from (the loops read nothing else).
CanvasRain ==
    [s \in RngStates |->
        rain_cols(0, CanvasWidth, CanvasHeight, Painted(<<>>, s))]

\* One iteration of the frame loop: the rain, then the main text on top.
matrix_frame(text, width, height, st, i, s) ==
    LET base == create_base_frame(text, width, height, st)
        rain == IF width = CanvasWidth /\ height = CanvasHeight
                THEN CanvasRain[s]
                ELSE rain_cols(0, width, height, Painted(<<>>, s))
    IN  [frame |-> Frame(i, base,
                         Append(rain.draws,
                                Draw(base.origin, text, st.colors[1]))),
         rng |-> rain.rng]

\* for i in range(i, total_frames): r is the list so far and the generator state
RECURSIVE matrix_loop(_, _, _, _, _, _, _)
matrix_loop(text, width, height, st, i, total_frames, r) ==
    IF i >= total_frames \/ r.raised # "none" THEN r
    ELSE LET it == matrix_frame(text, width, height, st, i, r.rng)
         IN  matrix_loop(text, width, height, st, i + 1, total_frames,
                         Returned(Append(r.frames, it.frame), it.rng))

create_matrix_effect(text, width, height, st, f, d, s) ==
    matrix_loop(text, width, height, st, 0, TotalFrames(f, d),
                Returned(<<>>, s))

-----------------------------------------------------------------------------
(* create_rainbow_effect *)

\* Mutant: the colour of a character does not move with the frame index
RainbowColorIndexStatic(i, j, ncolors) == (j % ncolors) + 1

\* (i + j) % len(style.colors), as a position of the 1-based list
RainbowColorIndex(i, j, ncolors) == ((i + j) % ncolors) + 1

\* x + draw.textlength(text[:j], font=font)
RainbowCharX(text, j, x, font_size) == x + textlength(Prefix(text, j), font_size)

rainbow_frame(text, width, height, st, i) ==
    LET base == create_base_frame(text, width, height, st)
    IN  Frame(i, base,
              [k \in 1 .. Len(text) |->
                  Draw(<<RainbowCharX(text, k - 1, base.origin[1], st.font_size),
                         base.origin[2]>>,
                       <<text[k]>>,
                       st.colors[RainbowColorIndex(i, k - 1, Len(st.colors))])])

create_rainbow_effect(text, width, height, st, f, d, s) ==
    LET total_frames == TotalFrames(f, d)
    IN  Returned([k \in 1 .. total_frames |->
                     rainbow_frame(text, width, height, st, k - 1)], s)

-----------------------------------------------------------------------------
(* create_neon_effect *)

\* style.colors[i % len(style.colors)]
GlowColor(st, i) == st.colors[(i % Len(st.colors)) + 1]

\* The four draws of one pass of `for offset in range(3, 0, -1)`
GlowPass(text, x, y, offset, glow_color) ==
    << Draw(<<x - offset, y>>, text, glow_color),
       Draw(<<x + offset, y>>, text, glow_color),
       Draw(<<x, y - offset>>, text, glow_color),
       Draw(<<x, y + offset>>, text, glow_color) >>

\* Mutant: the white core is drawn first and the glow over it
neon_frame_core_first(text, width, height, st, i) ==
    LET base == create_base_frame(text, width, height, st)
        x == base.origin[1]
        y == base.origin[2]
        glow_color == GlowColor(st, i)
    IN  Frame(i, base,
              << Draw(<<x, y>>, text, "#FFFFFF") >>
              \o GlowPass(text, x, y, 3, glow_color)
              \o GlowPass(text, x, y, 2, glow_color)
              \o GlowPass(text, x, y, 1, glow_color))

neon_frame(text, width, height, st, i) ==
    LET base == create_base_frame(text, width, height, st)
        x == base.origin[1]
        y == base.origin[2]
        glow_color == GlowColor(st, i)
    IN  Frame(i, base,
              GlowPass(text, x, y, 3, glow_color)
              \o GlowPass(text, x, y, 2, glow_color)
              \o GlowPass(text, x, y, 1, glow_color)
              \o << Draw(<<x, y>>, text, "#FFFFFF") >>)

create_neon_effect(text, width, height, st, f, d, s) ==
    LET total_frames == TotalFrames(f, d)
    IN  Returned([k \in 1 .. total_frames |->
                     neon_frame(text, width, height, st, k - 1)], s)

-----------------------------------------------------------------------------
(* create_frames *)

\* Mutant: self.styles.get(style, self.styles['typewriter'])
style_config_default(s) ==
    IF s \in DOMAIN Styles
    THEN [found |-> TRUE, config |-> Styles[s]]
    ELSE [found |-> TRUE, config |-> Styles["typewriter"]]

\* self.styles[style]: KeyError for a name that is not in the catalog
style_config(s) ==
    IF s \in DOMAIN Styles
    THEN [found |-> TRUE, config |-> Styles[s]]
    ELSE [found |-> FALSE, config |-> Styles["typewriter"]]

create_frames(text, sname, f, d, s) ==
    LET width == CanvasWidth
        height == CanvasHeight
        looked == style_config(sname)
        st == looked.config
    IN  IF ~looked.found THEN Raised("KeyError", s)
        ELSE CASE sname = "typewriter" ->
                    create_typewriter_effect(text, width, height, st, f, d, s)
               [] sname = "bounce" ->
                    create_bounce_effect(text, width, height, st, f, d, s)
               [] sname = "matrix" ->
                    create_matrix_effect(text, width, height, st, f, d, s)
               [] sname = "rainbow" ->
                    create_rainbow_effect(text, width, height, st, f, d, s)
               [] sname = "neon" ->
                    create_neon_effect(text, width, height, st, f, d, s)
               [] OTHER -> Returned(<<>>, s)

-----------------------------------------------------------------------------
(* The session *)

CreateFramesErrors == {"KeyError", "ZeroDivisionError"}

NoClip == [n_frames |-> 0, fps |-> 0, size |-> <<0, 0>>]
NoCall == [raised |-> "never", frames |-> <<>>]

Init ==
    /\ text_input \in Texts
    /\ style \in StyleNames
    /\ fps \in FpsValues
    /\ duration \in DurationValues
    /\ pc = "idle"
    /\ caller = "none"
    /\ frames = <<>>
    /\ error = "none"
    /\ tmp_exists = FALSE
    /\ leaked = 0
    /\ clip = NoClip
    /\ video_bytes = NoClip
    /\ history = <<>>
    /\ rng \in 0 .. MaxSeed
    /\ runs = 0
    /\ prev = NoCall

\* `except Exception as e: st.error(...)` in main
Fail(kind) ==
    /\ pc' = "error"
    /\ error' = kind

\* The Generate button with the widget values: TextAnimator() and
\* animator.create_frames(text_input, style, fps=fps, duration=duration).
Generate ==
    /\ pc = "idle"
    /\ UIRequest(text_input, style, fps, duration)
    /\ \E r \in {create_frames(text_input, style, fps, duration, rng)} :
           /\ caller' = "main"
           /\ rng' = r.rng
           /\ frames' = r.frames
           /\ IF r.raised = "none"
              THEN pc' = "tempfile" /\ error' = "none"
              ELSE Fail(r.raised)
    /\ UNCHANGED <<text_input, style, fps, duration, tmp_exists, leaked, clip,
                   video_bytes, history, runs, prev>>

\* TextAnimator.create_frames called directly with arbitrary arguments.
CallCreateFrames ==
    /\ pc = "idle"
    /\ \E r \in {create_frames(text_input, style, fps, duration, rng)} :
           /\ caller' = "api"
           /\ rng' = r.rng
           /\ frames' = r.frames
           /\ error' = r.raised
           /\ pc' = IF r.raised = "none" THEN "returned" ELSE "raised"
    /\ UNCHANGED <<text_input, style, fps, duration, tmp_exists, leaked, clip,
                   video_bytes, history, runs, prev>>

\* tempfile.NamedTemporaryFile(suffix='.mp4', delete=False)
CreateTemp ==
    /\ pc = "tempfile"
    /\ \E ok \in BOOLEAN :
          IF ok
          THEN /\ tmp_exists' = TRUE
               /\ pc' = "clip"
               /\ UNCHANGED error
          ELSE /\ Fail("OSError")
               /\ UNCHANGED tmp_exists
    /\ UNCHANGED <<text_input, style, fps, duration, caller, frames, leaked,
                   clip, video_bytes, history, rng, runs, prev>>

\* ImageSequenceClip(frames, fps=fps): reads sequence[0] for the size
ImageSequenceClip(fs, f) ==
    [n_frames |-> Len(fs), fps |-> f, size |-> fs[1].size]

BuildClip ==
    /\ pc = "clip"
    /\ \E ok \in BOOLEAN :
          IF ok /\ frames # <<>>
          THEN /\ clip' = ImageSequenceClip(frames, fps)
               /\ pc' = "write"
               /\ UNCHANGED error
          ELSE /\ Fail(IF frames = <<>> THEN "IndexError" ELSE "MemoryError")
               /\ UNCHANGED clip
    /\ UNCHANGED <<text_input, style, fps, duration, caller, frames, tmp_exists,
                   leaked, video_bytes, history, rng, runs, prev>>

\* clip.write_videofile(tmp_file.name, fps=fps, codec='libx264', ...)
WriteVideo ==
    /\ pc = "write"
    /\ \E ok \in BOOLEAN :
          IF ok
          THEN pc' = "audio" /\ UNCHANGED error
          ELSE Fail("IOError")
    /\ UNCHANGED <<text_input, style, fps, duration, caller, frames, tmp_exists,
                   leaked, clip, video_bytes, history, rng, runs, prev>>

\* add_audio_background(video_path, audio_style): returns video_path
add_audio_background(video_path, audio_style) == video_path

\* if add_audio and audio_style != 'None': tmp_file.name = add_audio_background(...)
AudioStep ==
    /\ pc = "audio"
    /\ \E add_audio \in BOOLEAN, audio_style \in {"None", "Upbeat"} :
          LET name == IF add_audio /\ audio_style # "None"
                      THEN add_audio_background("tmp", audio_style)
                      ELSE "tmp"
          IN  /\ name = "tmp"
              /\ pc' = "read"
    /\ UNCHANGED <<text_input, style, fps, duration, caller, frames, error,
                   tmp_exists, leaked, clip, video_bytes, history, rng, runs,
                   prev>>

\* with open(tmp_file.name, 'rb') as f: video_bytes = f.read()
ReadBack ==
    /\ pc = "read"
    /\ \E ok \in BOOLEAN :
          IF ok
          THEN /\ video_bytes' = clip
               /\ pc' = "unlink"
               /\ UNCHANGED error
          ELSE /\ Fail("IOError")
               /\ UNCHANGED video_bytes
    /\ UNCHANGED <<text_input, style, fps, duration, caller, frames, tmp_exists,
                   leaked, clip, history, rng, runs, prev>>

\* os.unlink(tmp_file.name), inside the `with` that still holds the file open
Unlink ==
    /\ pc = "unlink"
    /\ \E ok \in BOOLEAN :
          IF ok
          THEN /\ tmp_exists' = FALSE
               /\ pc' = "history"
               /\ UNCHANGED error
          ELSE /\ Fail("PermissionError")
               /\ UNCHANGED tmp_exists
    /\ UNCHANGED <<text_input, style, fps, duration, caller, frames, leaked,
                   clip, video_bytes, history, rng, runs, prev>>

\* The history slider of the Settings tab: st.slider(..., 1, 20, 10)
CacheSizeMin == 1

\* CacheManager.cleanup_old_entries with max_size: history[-max_size:] when
\* the history is longer than max_size.  main() never calls it.
cleanup_old_entries(h, max_size) ==
    IF Len(h) > max_size
    THEN SubSeq(h, Len(h) - max_size + 1, Len(h))
    ELSE h

\* The dict appended to the history; the timestamp is the run it was made in
HistoryEntry(timestamp, text, sname, video) ==
    [timestamp |-> timestamp, text |-> text, style |-> sname, video |-> video]

\* Mutant: the history is trimmed to the configured size after the append
history_append_trimmed(h, entry) ==
    cleanup_old_entries(Append(h, entry), CacheSizeMin)

\* st.session_state.history.append(entry)
history_append(h, entry) == Append(h, entry)

\* st.session_state.history.append({...}); st.video; st.download_button
AppendHistory ==
    /\ pc = "history"
    /\ history' = history_append(history,
                                 HistoryEntry(runs, text_input, style,
                                              video_bytes))
    /\ pc' = "done"
    /\ UNCHANGED <<text_input, style, fps, duration, caller, frames, error,
                   tmp_exists, leaked, clip, video_bytes, rng, runs, prev>>

Finished == pc \in {"done", "error", "returned", "raised"}

\* The next run of the script in the same session: the widgets keep their
\* values, the locals of the last run are gone, st.session_state.history,
\* the generator of module random and the files on disk stay.
NextRun ==
    /\ Finished
    /\ runs + 1 < MaxRuns
    /\ runs' = runs + 1
    /\ prev' = [raised |-> IF error \in CreateFramesErrors
                               THEN error ELSE "none",
                frames |-> frames]
    /\ leaked' = leaked + (IF tmp_exists THEN 1 ELSE 0)
    /\ pc' = "idle"
    /\ caller' = "none"
    /\ frames' = <<>>
    /\ error' = "none"
    /\ tmp_exists' = FALSE
    /\ clip' = NoClip
    /\ video_bytes' = NoClip
    /\ UNCHANGED <<text_input, style, fps, duration, history, rng>>

Next ==
    \/ Generate
    \/ CallCreateFrames
    \/ CreateTemp
    \/ BuildClip
    \/ WriteVideo
    \/ AudioStep
    \/ ReadBack
    \/ Unlink
    \/ AppendHistory
    \/ NextRun

Spec == Init /\ [][Next]_vars

-----------------------------------------------------------------------------
(* Properties *)

\* create_frames has been called in this run and has returned its list
CallReturned == pc # "idle" /\ error \notin CreateFramesErrors

\* create_frames has been called in this run and has raised
CallRaised == pc # "idle" /\ error \in CreateFramesErrors

FiveStyles == {"typewriter", "bounce", "matrix", "rainbow", "neon"}

ValidArgs ==
    /\ style \in FiveStyles
    /\ fps \in FpsMin .. FpsMax
    /\ duration \in DurationMin .. DurationMax

\* The centred origin of the whole text on the canvas, for the current request
Origin ==
    create_base_frame(text_input, CanvasWidth, CanvasHeight,
                      Styles[style]).origin

\* A draw.text call that paints something
Paints(d) == d.text # <<>>

\* C1: for each of the five styles and every valid request (fps in 15..60,
\* duration in 1..10, any text) create_frames returns fps*duration frames,
\* in increasing frame index 0..totalFrames-1, each on the 800x400 canvas;
\* fps = 15 and duration = 1 give 15 frames.
C1_FrameCount ==
    (pc # "idle" /\ ValidArgs) =>
        /\ CallReturned
        /\ Len(frames) = fps * duration
        /\ \A k \in 1 .. Len(frames) :
              /\ frames[k].index = k - 1
              /\ frames[k].size = <<800, 400>>
        /\ (fps = 15 /\ duration = 1) => Len(frames) = 15

C1_Witness ==
    /\ CallReturned
    /\ ValidArgs
    /\ fps = 15
    /\ duration = 1
    /\ Len(frames) = 15
    /\ frames[15].index = 14

\* C2: whenever the encode step of the Generate handler has ended, by
\* success or by a failure, the temporary file no longer exists.
C2_TempFileReleased ==
    (caller = "main" /\ pc \in {"history", "done", "error"}) => ~tmp_exists

\* C3: a request whose computed totalFrames is 0 (fps = 0 or duration = 0)
\* is rejected for every style: the call ends in an error and no frame list,
\* not even an empty one, is returned.
C3_ZeroFramesRejected ==
    (pc # "idle" /\ style \in FiveStyles /\ fps * duration = 0) =>
        /\ CallRaised
        /\ ~tmp_exists

\* Characters of the text shown in a typewriter frame
CharsShown(frame) == Len(frame.draws[1].text)

\* C4: typewriter, any text, totalFrames >= 1: the number of characters
\* shown is non-decreasing in the frame index, frame 0 shows no more than
\* frame 1, and the final frame shows the whole text.
C4_TypewriterReveals ==
    (CallReturned /\ style = "typewriter" /\ fps * duration >= 1) =>
        /\ \A k \in 1 .. Len(frames) - 1 :
              CharsShown(frames[k]) <= CharsShown(frames[k + 1])
        /\ frames[Len(frames)].draws[1].text = text_input

\* A draw of the matrix rain: one glyph of the alphabet on a grid cell, in
\* the green of its row
IsRainDraw(d) ==
    /\ Len(d.text) = 1
    /\ d.text[1] \in {matrix_chars[n] : n \in 1 .. Len(matrix_chars)}
    /\ d.at[1] \in 0 .. CanvasWidth - 1
    /\ d.at[1] % RainColStep = 0
    /\ d.at[2] \in 0 .. CanvasHeight - 1
    /\ d.at[2] % RainRowStep = 0
    /\ d.fill = RainColor(d.at[2], CanvasHeight)

\* C5 as stated: with empty text and totalFrames >= 1 every style, matrix
\* included, returns totalFrames frames on which nothing is painted over
\* the background, and raises no error.
C5_EmptyTextBackgroundOnly ==
    (pc # "idle" /\ text_input = <<>> /\ style \in FiveStyles
        /\ fps * duration >= 1) =>
        /\ CallReturned
        /\ Len(frames) = fps * duration
        /\ \A k \in 1 .. Len(frames) :
              /\ frames[k].background = Styles[style].background
              /\ \A n \in 1 .. Len(frames[k].draws) :
                    ~Paints(frames[k].draws[n])

\* C5 amended: with empty text and totalFrames >= 1 every style returns
\* totalFrames frames and raises no error; typewriter, bounce, rainbow and
\* neon paint nothing over the background, and on a matrix frame the only
\* marks are the glyphs of the rain (the main text paints nothing).
C5_EmptyTextNoTextDrawn ==
    (pc # "idle" /\ text_input = <<>> /\ style \in FiveStyles
        /\ fps * duration >= 1) =>
        /\ CallReturned
        /\ Len(frames) = fps * duration
        /\ \A k \in 1 .. Len(frames) :
              /\ frames[k].background = Styles[style].background
              /\ \A n \in 1 .. Len(frames[k].draws) :
                    Paints(frames[k].draws[n]) =>
                        /\ style = "matrix"
                        /\ n < Len(frames[k].draws)
                        /\ IsRainDraw(frames[k].draws[n])

C5_Witness ==
    /\ CallReturned
    /\ text_input = <<>>
    /\ style = "matrix"
    /\ Len(frames) = 15
    /\ \E n \in 1 .. Len(frames[1].draws) : Paints(frames[1].draws[n])
    /\ ~Paints(frames[1].draws[Len(frames[1].draws)])

\* C6: create_frames hands the request to the renderer of the requested
\* style, and a style outside the five known kinds ends in an error: it is
\* not rendered as another style and no frame list is returned.
C6_Dispatch ==
    /\ (pc # "idle" /\ style \notin FiveStyles) =>
          /\ CallRaised
          /\ error = "KeyError"
          /\ frames = <<>>
          /\ pc \in {"raised", "error"}
    /\ (CallReturned /\ style \in FiveStyles) =>
          LET origin == Origin
          IN  \A k \in 1 .. Len(frames) :
                 LET ds == frames[k].draws
                     last == ds[Len(ds)]
                 IN  /\ frames[k].background = Styles[style].background
                     /\ CASE style = "typewriter" ->
                               /\ Len(ds) = 1
                               /\ last.fill = "#FFFFFF"
                               /\ last.at = origin
                          [] style = "bounce" ->
                               /\ Len(ds) = 1
                               /\ last = Draw(<<origin[1], last.at[2]>>,
                                              text_input, "#FFD700")
                          [] style = "matrix" ->
                               /\ last = Draw(origin, text_input, "#00FF00")
                               /\ \A n \in 1 .. Len(ds) - 1 :
                                     Len(ds[n].text) = 1
                          [] style = "rainbow" ->
                               /\ Len(ds) = Len(text_input)
                               /\ \A n \in 1 .. Len(ds) :
                                     ds[n].text = <<text_input[n]>>
                          [] style = "neon" ->
                               /\ Len(ds) = 13
                               /\ last.fill = "#FFFFFF"

C6_Witness ==
    /\ pc = "raised"
    /\ style = "sparkle"
    /\ error = "KeyError"
    /\ frames = <<>>

C8_Rainbow ==
    (CallReturned /\ style = "rainbow") =>
        LET colors == Styles["rainbow"].colors
            n == Len(colors)
            palette == {colors[c] : c \in 1 .. n}
            x == Origin[1]
        IN  /\ \A k \in 1 .. Len(frames) :
                  Len(frames[k].draws) = Len(text_input)
            /\ \A j \in 0 .. Len(text_input) - 1 :
                  LET xj == x + textlength(SubSeq(text_input, 1, j),
                                           Styles["rainbow"].font_size)
                  IN  \A k \in 1 .. Len(frames) :
                         LET d == frames[k].draws[j + 1]
                         IN  /\ d.text = <<text_input[j + 1]>>
                             /\ d.fill = colors[(((k - 1) + j) % n) + 1]
                             /\ d.at[1] = xj
                             /\ d.at = frames[1].draws[j + 1].at
                             /\ (k + n <= Len(frames)) =>
                                   frames[k + n].draws[j + 1].fill = d.fill
                             /\ (k + n - 1 <= Len(frames)) =>
                                   {frames[k + m].draws[j + 1].fill :
                                       m \in 0 .. n - 1} = palette

C8_Witness ==
    /\ CallReturned
    /\ style = "rainbow"
    /\ Len(text_input) = 5
    /\ Len(frames) = 15
    /\ frames[1].draws[2].fill = "#FF7F00"
    /\ frames[8].draws[2].fill = "#FF7F00"
    /\ frames[2].draws[2].fill = "#FFFF00"
    /\ frames[1].draws[2].at = frames[9].draws[2].at

\* C9: neon: in every frame the glow passes (offsets 3, 2, 1 in that order,
\* each drawn left, right, up, down in colors[i mod len(colors)]) come
\* before the core text, and the last draw of the frame is the whole text
\* in '#FFFFFF' at the centred origin.
C9_Neon ==
    (CallReturned /\ style = "neon") =>
        LET colors == Styles["neon"].colors
            x == Origin[1]
            y == Origin[2]
        IN  \A k \in 1 .. Len(frames) :
               LET ds == frames[k].draws
                   glow == colors[((k - 1) % Len(colors)) + 1]
               IN  /\ Len(ds) = 13
                   /\ \A p \in 0 .. 2 :
                         LET off == 3 - p
                         IN  /\ ds[4 * p + 1] = Draw(<<x - off, y>>, text_input, glow)
                             /\ ds[4 * p + 2] = Draw(<<x + off, y>>, text_input, glow)
                             /\ ds[4 * p + 3] = Draw(<<x, y - off>>, text_input, glow)
                             /\ ds[4 * p + 4] = Draw(<<x, y + off>>, text_input, glow)
                   /\ ds[13] = Draw(<<x, y>>, text_input, "#FFFFFF")

C9_Witness ==
    /\ CallReturned
    /\ style = "neon"
    /\ text_input # <<>>
    /\ Len(frames) = 15
    /\ frames[2].draws[1].fill = "#00FF00"
    /\ frames[2].draws[13].fill = "#FFFFFF"

\* Vertical offset applied to the text in a bounce frame
AppliedOffset(frame) == frame.draws[1].at[2] - Origin[2]

\* C10: bounce: the offset of frame 0 is 0, the offset is periodic with
\* period fps (offset(i + fps) = offset(i) whenever i + fps < totalFrames),
\* and the whole text is drawn at (x, y + offset) in colors[0].
C10_BouncePeriodic ==
    (CallReturned /\ style = "bounce" /\ fps >= 1) =>
        /\ Len(frames) >= 1 => AppliedOffset(frames[1]) = 0
        /\ \A k \in 1 .. Len(frames) :
              /\ Len(frames[k].draws) = 1
              /\ frames[k].draws[1].text = text_input
              /\ frames[k].draws[1].fill = Styles["bounce"].colors[1]
              /\ frames[k].draws[1].at[1] = Origin[1]
              /\ (k + fps <= Len(frames)) =>
                    AppliedOffset(frames[k + fps]) = AppliedOffset(frames[k])

\* C11 as stated: typewriter, any text, totalFrames >= 1: frame i draws
\* text[0:charsShown] with
\* charsShown = min(len(text), floor(i * len(text) / totalFrames)).
C11_TypewriterProportional ==
    (CallReturned /\ style = "typewriter" /\ fps * duration >= 1) =>
        \A k \in 1 .. Len(frames) :
           LET shown == Min(Len(text_input),
                            ((k - 1) * Len(text_input)) \div (fps * duration))
           IN  frames[k].draws[1].text = SubSeq(text_input, 1, shown)

\* C11 amended: typewriter, any text, totalFrames >= 1: frame i draws
\* text[0:charsShown] with
\* charsShown = min(len(text), i * max(1, len(text) // totalFrames)),
\* once, at the centred origin, in colors[0].
C11_TypewriterWholeSteps ==
    (CallReturned /\ style = "typewriter" /\ fps * duration >= 1) =>
        LET n == Len(text_input)
            total == fps * duration
            step == IF n \div total >= 1 THEN n \div total ELSE 1
            origin == Origin
        IN  /\ Len(frames) = total
            /\ \A k \in 1 .. Len(frames) :
                  LET want == (k - 1) * step
                      shown == IF want < n THEN want ELSE n
                  IN  /\ Len(frames[k].draws) = 1
                      /\ frames[k].draws[1].text = SubSeq(text_input, 1, shown)
                      /\ frames[k].draws[1].at = origin
                      /\ frames[k].draws[1].fill = Styles["typewriter"].colors[1]

C11_Witness ==
    /\ CallReturned
    /\ style = "typewriter"
    /\ text_input = <<"H", "e", "l", "l", "o">>
    /\ Len(frames) = 15
    /\ frames[1].draws[1].text = <<>>
    /\ frames[4].draws[1].text = <<"H", "e", "l">>
    /\ frames[15].draws[1].text = text_input

====
